---- MODULE Spec2Model ----
(***************************************************************************)
(* A model of MEG/meg_bids_data_conversion.py: the trigger-channel         *)
(* resolver (_check_event_channels), the trigger decoder (_sti_to_decimal, *)
(* _get_events_from_sti_channels), the event-time corrector and the        *)
(* per-subject driver (process_subject) with the top-level script.         *)
(*                                                                         *)
(* Channel names.  Every name the script handles is "STI" followed by      *)
(* three decimal digits, so a name is modelled by its three digits:        *)
(* 'STI007' is <<0,0,7>>, 'STI101' is <<1,0,1>>.  Python compares strings  *)
(* lexicographically, and so does StrLess below.                           *)
(***************************************************************************)
EXTENDS Integers, Sequences, FiniteSets, TLC

\* ------------------------------------------------------------------ bounds
\* Bit-line channels STI001..STI<MaxBit> exist in the modelled hardware.
MaxBit == 3
\* Longest configured channel list (list form, and each of stim / resp).
MaxListLen == 2
\* Samples per recording in the decoder specification.
NumSamples == 3
\* Subjects in the subject dictionary, and entries of one meg_raw_files list.
NumSubjects == 2
MaxFiles == 2
\* Events of an EventArray in the corrector specification, and the largest
\* onset sample index and event code drawn there.
MaxEvents == 2
MaxOnset == 3
MaxCode == 3
\* Pulses of a synthetic recording in the round-trip specification, and the
\* longest run of low samples before a pulse.
MaxPulses == 2
MaxGap == 2

\* ------------------------------------------------------- program constants
\* range(1, 17): the look-up table covers STI001..STI016.
NumStiChannels == 16
\* "Values in STI channels should be 0 or 5".
HighValue == 5
\* min_duration=0.002 in every mne.find_events call, in milliseconds.
MinDurationMs == 2
\* audio_latency_sec = 0.028 and visual_latency_sec = 0.034, in milliseconds.
audio_latency_ms == 28
visual_latency_ms == 34

\* Python's None, unequal to every string and every list of the model.
None == <<"None">>

\* ------------------------------------------------------------ channel names
\* f'STI{i:03d}': the three digits of i, zero padded.
Fmt03(i) == <<i \div 100, (i \div 10) % 10, i % 10>>

STI101 == <<1, 0, 1>>

\* Python's str.__lt__: lexicographic comparison.
RECURSIVE StrLess(_, _)
StrLess(a, b) ==
    IF b = <<>> THEN FALSE
    ELSE IF a = <<>> THEN TRUE
    ELSE IF Head(a) # Head(b) THEN Head(a) < Head(b)
    ELSE StrLess(Tail(a), Tail(b))

Range(s) == {s[i] : i \in DOMAIN s}

\* A list with the sort left out.
Unsorted(s) == s

RECURSIVE SortInsert(_, _)
SortInsert(x, s) ==
    IF s = <<>> THEN <<x>>
    ELSE IF StrLess(x, Head(s)) THEN <<x>> \o s
    ELSE <<Head(s)>> \o SortInsert(x, Tail(s))

RECURSIVE SortedFrom(_, _)
SortedFrom(s, acc) ==
    IF s = <<>> THEN acc ELSE SortedFrom(Tail(s), SortInsert(Head(s), acc))

\* Python's sorted() on a list of channel names (stable, ascending).
sorted(s) == SortedFrom(s, <<>>)

\* ------------------------------------------------------------- recordings
\* A recording (mne.io.Raw) is [ch_names, high, sfreq, first_samp, eeg]:
\* the channel names it holds, for every sample the set of bit-lines that
\* are high, the sampling rate in Hz, the first sample's index and whether
\* it has EEG channels.
BitLines == {Fmt03(i) : i \in 1..MaxBit}

\* The hardware's weight of a bit-line inside the combined channel STI101.
RECURSIVE SumWeights(_)
SumWeights(S) ==
    IF S = {} THEN 0
    ELSE LET c == CHOOSE c \in S : TRUE
         IN  2 ^ ((CHOOSE i \in 1..NumStiChannels : Fmt03(i) = c) - 1)
             + SumWeights(S \ {c})

\* raw.get_data(picks=chs): one row per picked channel, in the picks' order.
ChannelRow(raw, ch) ==
    [t \in DOMAIN raw.high |->
        IF ch = STI101 THEN SumWeights(raw.high[t])
        ELSE IF ch \in raw.high[t] THEN HighValue ELSE 0]

get_data(raw, picks) == [i \in DOMAIN picks |-> ChannelRow(raw, picks[i])]

\* ----------------------------------------------------- _check_event_channels
\* A configuration is [form |-> "list", chs |-> <<...>>], or
\* [form |-> "dict", stim |-> <<...>>, resp |-> <<...>>] (a dictionary with
\* precisely the keys 'stim' and 'resp', both lists: the asserts of lines
\* 99-104 hold of every dictionary drawn), or [form |-> "other"].
\* The result is [status |-> "return", value |-> configuration] or
\* [status |-> "raise", error |-> the exception's type].
Return(v) == [status |-> "return", value |-> v]
Raise(e) == [status |-> "raise", error |-> e]

ListCfg(chs) == [form |-> "list", chs |-> chs]
DictCfg(stim, resp) == [form |-> "dict", stim |-> stim, resp |-> resp]

AnyMissing(chs, raw) == \E i \in DOMAIN chs : chs[i] \notin raw.ch_names

\* The fallback of lines 106-111, 114-119 and 130-135.
Fallback(raw) ==
    IF STI101 \in raw.ch_names THEN Return(ListCfg(<<STI101>>))
    ELSE Raise("AssertionError")

\* The fallback taken on a missing stimulus channel only.
CheckDictStimOnly(event_channels, raw) ==
    IF AnyMissing(event_channels.stim, raw) THEN Fallback(raw)
    ELSE IF STI101 \in Range(event_channels.stim) \cup Range(event_channels.resp)
        THEN Raise("AssertionError")
    ELSE IF Range(event_channels.stim) \cap Range(event_channels.resp) # {}
        THEN Raise("AssertionError")
    ELSE Return(event_channels)

CheckDict(event_channels, raw) ==
    IF AnyMissing(event_channels.stim, raw) THEN Fallback(raw)
    ELSE IF AnyMissing(event_channels.resp, raw) THEN Fallback(raw)
    ELSE IF STI101 \in Range(event_channels.stim) \cup Range(event_channels.resp)
        THEN Raise("AssertionError")
    ELSE IF Range(event_channels.stim) \cap Range(event_channels.resp) # {}
        THEN Raise("AssertionError")
    ELSE Return(event_channels)

CheckList(event_channels, raw) ==
    IF AnyMissing(event_channels.chs, raw) THEN Fallback(raw)
    ELSE IF STI101 \in Range(event_channels.chs) /\ Len(event_channels.chs) # 1
        THEN Raise("AssertionError")
    ELSE Return(event_channels)

_check_event_channels(event_channels, raw) ==
    IF event_channels.form = "dict" THEN CheckDict(event_channels, raw)
    ELSE IF event_channels.form = "list" THEN CheckList(event_channels, raw)
    ELSE Raise("ValueError")

\* ------------------------------------------------------------ _sti_to_decimal
\* sti_channels = [f'STI{i:03d}' for i in range(1, 17)]
sti_channels == [i \in 1..NumStiChannels |-> Fmt03(i)]

InLut(ch) == \E i \in DOMAIN sti_channels : sti_channels[i] = ch

\* The table built with one-based indices: enumerate(sti_channels, 1).
LutOneBased(ch) == 2 ^ (CHOOSE i \in DOMAIN sti_channels : sti_channels[i] = ch)

\* sti_decimal_lut[ch] = 2**i, i the zero-based index of ch in sti_channels.
sti_decimal_lut(ch) == 2 ^ ((CHOOSE i \in DOMAIN sti_channels : sti_channels[i] = ch) - 1)

\* The weight by the row's position in the list: 2**i for row i (zero-based).
WeightByPosition(event_channels, i) == 2 ^ (i - 1)

\* The value substituted for the non-zero samples of row i (one-based).
RowWeight(event_channels, i) == sti_decimal_lut(event_channels[i])

\* Raises KeyError when a name is not in the look-up table.
StiKeyError(event_channels) == \E i \in DOMAIN event_channels : ~InLut(event_channels[i])

_sti_to_decimal(sti_data, event_channels) ==
    [i \in DOMAIN event_channels |->
        [t \in DOMAIN sti_data[i] |->
            IF sti_data[i][t] > 0 THEN RowWeight(event_channels, i) ELSE sti_data[i][t]]]

\* np.sum(stim_data, axis=0): the column sums.
RECURSIVE SumRows(_, _)
SumRows(rows, t) ==
    IF rows = <<>> THEN 0 ELSE Head(rows)[t] + SumRows(Tail(rows), t)

ColumnSum(rows, T) == [t \in 1..T |-> SumRows(rows, t)]

\* ------------------------------------------------------------ mne.find_events
\* The library's event detection, from its contract: an event is a sample
\* where the level changes to a non-zero level that then persists for the
\* minimum pulse duration; the level before the first sample is 0.  A row
\* of the EventArray is <<sample_index, previous_value, event_code>>.
MinSamples(sfreq) == (MinDurationMs * sfreq + 999) \div 1000

Persists(row, t, n) ==
    /\ t + n - 1 <= Len(row)
    /\ \A k \in t..(t + n - 1) : row[k] = row[t]

RECURSIVE EventsFrom(_, _, _, _)
EventsFrom(row, t, n, first_samp) ==
    IF t > Len(row) THEN <<>>
    ELSE LET prev == IF t = 1 THEN 0 ELSE row[t - 1]
             rest == EventsFrom(row, t + 1, n, first_samp)
         IN  IF row[t] # prev /\ row[t] # 0 /\ Persists(row, t, n)
             THEN <<(<<first_samp + t - 1, prev, row[t]>>)>> \o rest
             ELSE rest

RECURSIVE InsertBySample(_, _)
InsertBySample(e, s) ==
    IF s = <<>> THEN <<e>>
    ELSE IF e[1] < Head(s)[1] THEN <<e>> \o s
    ELSE <<Head(s)>> \o InsertBySample(e, Tail(s))

RECURSIVE SortBySample(_, _)
SortBySample(s, acc) ==
    IF s = <<>> THEN acc ELSE SortBySample(Tail(s), InsertBySample(Head(s), acc))

RECURSIVE ConcatEvents(_, _, _)
ConcatEvents(rows, n, first_samp) ==
    IF rows = <<>> THEN <<>>
    ELSE EventsFrom(Head(rows), 1, n, first_samp) \o ConcatEvents(Tail(rows), n, first_samp)

\* The events of every stimulus channel, in one list ascending by sample.
find_events(rows, sfreq, first_samp) ==
    SortBySample(ConcatEvents(rows, MinSamples(sfreq), first_samp), <<>>)

\* ---------------------------------------------- _get_events_from_sti_channels
NoDecode == [status |-> "none"]

Decoded(ec, stim, comb, resp, ev) ==
    [status |-> "return", event_channels |-> ec, stim_data |-> stim,
     sti101_new |-> comb, resp_data |-> resp, events |-> ev]

\* Lines 204-219: a list of channels.
GetEventsList(raw, chs) ==
    IF STI101 \in Range(chs)
    THEN Decoded(ListCfg(chs), <<>>, <<>>, <<>>,
                 find_events(<<ChannelRow(raw, STI101)>>, raw.sfreq, raw.first_samp))
    ELSE IF StiKeyError(chs) THEN Raise("KeyError")
    ELSE LET stim_data == _sti_to_decimal(get_data(raw, chs), chs)
             sti101_new == ColumnSum(stim_data, Len(raw.high))
         IN  Decoded(ListCfg(chs), stim_data, sti101_new, <<>>,
                     find_events(<<sti101_new>>, raw.sfreq, raw.first_samp))

\* Lines 220-235: stimulus channels summed, response channels kept apart.
GetEventsDict(raw, stim, resp) ==
    IF StiKeyError(stim) \/ StiKeyError(resp) THEN Raise("KeyError")
    ELSE LET stim_data == _sti_to_decimal(get_data(raw, stim), stim)
             sti101_new == ColumnSum(stim_data, Len(raw.high))
             resp_data == _sti_to_decimal(get_data(raw, resp), resp)
         IN  Decoded(DictCfg(stim, resp), stim_data, sti101_new, resp_data,
                     find_events(<<sti101_new>> \o resp_data, raw.sfreq, raw.first_samp))

\* The result carries, beside the events, what the function computed on the
\* way: `checked` is what _check_event_channels returned.
_get_events_from_sti_channels(raw, event_channels) ==
    LET chk == _check_event_channels(event_channels, raw)
    IN  IF chk.status = "raise" THEN chk
        ELSE [checked |-> chk.value] @@
             (IF chk.value.form = "dict"
              THEN GetEventsDict(raw, sorted(chk.value.stim), sorted(chk.value.resp))
              ELSE GetEventsList(raw, sorted(chk.value.chs)))

\* ------------------------------------------------------- event-time corrector
\* int(latency_sec * sfreq): the product, truncated.  The latencies are held
\* in milliseconds, so the product is latency_ms * sfreq / 1000.
LatencySamples(latency_ms, sfreq) == (latency_ms * sfreq) \div 1000

\* The mask taken on the onset column: np.isin(events[:, 0], values).
ShiftByOnsetColumn(ev, values, shift) ==
    [i \in DOMAIN ev |->
        IF ev[i][1] \in values THEN <<ev[i][1] + shift, ev[i][2], ev[i][3]>> ELSE ev[i]]

\* events[np.isin(events[:, 2], values), 0] += shift
ShiftCodes(ev, values, shift) ==
    [i \in DOMAIN ev |->
        IF ev[i][3] \in values THEN <<ev[i][1] + shift, ev[i][2], ev[i][3]>> ELSE ev[i]]

\* Lines 359-374: the auditory shift, then the visual shift.  The name lists
\* are made of the value lists' keys (config.py lines 31-34), so a name list
\* is empty exactly when its value list is.
AdjustEventTimes(ev, c, sfreq) ==
    LET a == IF c.auditory_event_values # {}
             THEN ShiftCodes(ev, c.auditory_event_values,
                             LatencySamples(c.audio_latency_ms, sfreq))
             ELSE ev
    IN  IF c.visual_event_values # {}
        THEN ShiftCodes(a, c.visual_event_values,
                        LatencySamples(c.visual_latency_ms, sfreq))
        ELSE a

\* --------------------------------------------------------------- the state
VARIABLES
    cfg,                \* the settings module
    subject_info,       \* the subject dictionary, in the file's order
    fs,                 \* what bids_raw_root and sourcedata_root hold
    pc,                 \* the script's position
    error,              \* the uncaught exception that ended the run
    ss,                 \* the top-level loop's position in subject_info
    meg_raw_files,      \* process_subject's list of recordings
    fi,                 \* the position of the loop over meg_raw_files
    raw_er,             \* the held-out empty-room file
    process_emptyroom,
    raw,                \* the recording being converted
    decoded,            \* what _get_events_from_sti_channels returned
    events,             \* the EventArray, shifted in place by the corrector
    shifts,             \* times the corrector has run on this EventArray
    calls,              \* the subjects process_subject was called for
    last_fix,           \* the last run of cfg.check_eeg_cmd for this subject
    last_write          \* the last call of write_raw_bids for this subject

vars == <<cfg, subject_info, fs, pc, error, ss, meg_raw_files, fi, raw_er,
          process_emptyroom, raw, decoded, events, shifts, calls, last_fix,
          last_write>>

\* ------------------------------------------------------------------ inputs
required_vars ==
    {"project_root", "data_root", "bids_raw_root", "sourcedata_root",
     "event_info_path", "subject_info_path", "meg_system", "event_channels",
     "adjust_event_times", "audio_latency_sec", "visual_latency_sec",
     "cal_file_path_triux", "ct_file_path_triux", "cal_file_path_vectorview",
     "ct_file_path_vectorview"}

required_vars_adjust_event_times ==
    {"auditory_event_names", "visual_event_names", "auditory_event_values",
     "visual_event_values"}

\* Every variable the script reads from the settings module.
UsedVars ==
    required_vars \cup required_vars_adjust_event_times \cup {"line_freq", "check_eeg_cmd"}

\* The variables one of which a drawn settings module may lack.
MissingOptions ==
    {{}, {"line_freq"}, {"event_channels"}, {"visual_event_values"}}

\* The default channel list: the first bit-lines, ascending.
DefaultChannels == [i \in 1..MaxListLen |-> Fmt03(i)]

BaseCfg ==
    [vars |-> UsedVars, meg_system |-> "triux", adjust_event_times |-> FALSE,
     event_channels |-> ListCfg(DefaultChannels),
     auditory_event_values |-> {1}, visual_event_values |-> {2},
     audio_latency_ms |-> audio_latency_ms, visual_latency_ms |-> visual_latency_ms]

DriverConfigs ==
    {[BaseCfg EXCEPT !.vars = UsedVars \ m, !.meg_system = s, !.adjust_event_times = a] :
        m \in MissingOptions, s \in {"triux", "vectorview", "ctf"}, a \in BOOLEAN}

BidsId(i) == Fmt03(i)

SubjectDicts ==
    {d \in [1..NumSubjects -> [bids_id : {None} \cup {BidsId(i) : i \in 1..NumSubjects},
                               mri_dcm_dir : {None, <<"dicom">>}]] :
        \A i \in 1..NumSubjects : d[i].bids_id \in {None, BidsId(i)}}

\* An entry of meg_raw_files: its run label and its place in the listed order.
SeqsUpTo(S, n) == UNION {[1..k -> S] : k \in 1..n}

FileLists ==
    {[i \in DOMAIN runs |-> [run |-> runs[i], file |-> i]] :
        runs \in SeqsUpTo({"emptyroom", "01"}, MaxFiles)}

NoFile == [run |-> "none", file |-> 0]

\* The recordings a file of the driver's run may hold: one pulse on STI001,
\* with all the bit-lines and STI101, with STI101 alone, or with neither.
PulseHigh == [t \in 1..NumSamples |-> IF t < NumSamples THEN {Fmt03(1)} ELSE {}]

MakeRaw(chs, high, sfreq, eeg) ==
    [ch_names |-> chs, high |-> high, sfreq |-> sfreq, first_samp |-> 0,
     eeg |-> eeg, path |-> "meg_raw_dir"]

DriverRecordings ==
    {MakeRaw(chs, PulseHigh, 1000, eeg) :
        chs \in {BitLines \cup {STI101}, {STI101}, {}}, eeg \in BOOLEAN}

NoRaw == MakeRaw({}, <<>>, 1000, FALSE)

\* What the output folders hold: a subject's files of some kind, or what
\* an earlier run left there.
Out(s, kind) == [sub |-> s, kind |-> kind]

Old == Out(None, "old")

\* ------------------------------------------------------------ _check_config
_check_config(c, project_root_exists) ==
    IF ~(required_vars \subseteq c.vars) THEN Raise("AssertionError")
    ELSE IF c.adjust_event_times /\ ~(required_vars_adjust_event_times \subseteq c.vars)
        THEN Raise("AssertionError")
    ELSE IF ~project_root_exists THEN Raise("AssertionError")
    ELSE IF c.meg_system \notin {"triux", "vectorview"} THEN Raise("AssertionError")
    ELSE Return(c)

\* ------------------------------------------------------ _check_subject_info
\* The first subject, in the dictionary's order, that fails a check: its
\* bids_id is not a non-empty string, or one of its directories is missing.
FailingSubjects(info, missing_dirs) ==
    {i \in DOMAIN info : info[i].bids_id = None \/ i \in missing_dirs}

_check_subject_info(info, missing_dirs) ==
    IF FailingSubjects(info, missing_dirs) # {} THEN Raise("AssertionError")
    ELSE Return(info)

FirstFailing(info, missing_dirs) ==
    CHOOSE i \in FailingSubjects(info, missing_dirs) :
        \A j \in FailingSubjects(info, missing_dirs) : i <= j

\* ------------------------------------------------------------- the script
NoError == [type |-> "none", names |-> 0, during |-> 0, stage |-> "none"]

\* An exception caught around process_subject: the loop goes on to the next
\* subject.
AbortSubjectOnly(type, names, during, stage) ==
    /\ error' = [type |-> type, names |-> names, during |-> during, stage |-> stage]
    /\ IF during = 0
       THEN pc' = "aborted" /\ ss' = ss
       ELSE pc' = "loop" /\ ss' = ss + 1

\* An uncaught exception ends the script: nothing in the file catches one.
\* `names` is the position of the subject the message names (0: it names
\* none), `during` the position of the subject being processed (0 outside
\* process_subject).
Abort(type, names, during, stage) ==
    /\ error' = [type |-> type, names |-> names, during |-> during, stage |-> stage]
    /\ pc' = "aborted"
    /\ ss' = ss

\* The script goes on to its next step.
Goto(next) ==
    /\ pc' = next
    /\ error' = error
    /\ ss' = ss

inputs == <<cfg, subject_info>>
subjv == <<meg_raw_files, fi, raw_er, process_emptyroom, last_fix, last_write>>
filev == <<raw, decoded, events, shifts>>

sub == subject_info[ss].bids_id

\* Lines 455-458: import the settings module and check it.
CheckConfig ==
    /\ pc = "check_config"
    /\ \E project_root_exists \in BOOLEAN :
        IF _check_config(cfg, project_root_exists).status = "raise"
        THEN Abort("AssertionError", 0, 0, "check_config")
        ELSE Goto("purge")
    /\ UNCHANGED <<inputs, fs, subjv, filev, calls>>

\* Lines 460-466: purge the output folders unless --keep_existing_folders.
Purge ==
    /\ pc = "purge"
    /\ \E keep_existing_folders \in BOOLEAN :
        fs' = IF keep_existing_folders THEN fs
              ELSE [rawdata |-> {}, sourcedata |-> {}]
    /\ Goto("check_subject_info")
    /\ UNCHANGED <<inputs, subjv, filev, calls>>

\* Lines 468-477: load and check the subject dictionary, load the events.
CheckSubjectInfo ==
    /\ pc = "check_subject_info"
    /\ \E missing_dirs \in SUBSET DOMAIN subject_info :
        IF _check_subject_info(subject_info, missing_dirs).status = "raise"
        THEN Abort("AssertionError", FirstFailing(subject_info, missing_dirs), 0,
                   "check_subject_info")
        ELSE pc' = "loop" /\ ss' = 1 /\ error' = error
    /\ UNCHANGED <<inputs, fs, subjv, filev, calls>>

\* Lines 479-498: the loop over the subjects, and the final purge of the
\* sourcedata folder unless --keep_source_data.
SubjectLoop ==
    /\ pc = "loop"
    /\ IF ss > Len(subject_info)
       THEN /\ \E keep_source_data \in BOOLEAN :
                 fs' = IF keep_source_data THEN fs ELSE [fs EXCEPT !.sourcedata = {}]
            /\ pc' = "done"
            /\ UNCHANGED <<ss, calls>>
       ELSE IF subject_info[ss].bids_id = None
       THEN /\ ss' = ss + 1
            /\ UNCHANGED <<fs, pc, calls>>
       ELSE /\ calls' = Append(calls, ss)
            /\ pc' = "ps_begin"
            /\ UNCHANGED <<fs, ss>>
    /\ UNCHANGED <<inputs, error, subjv, filev>>

\* ---------------------------------------------------------- process_subject
\* Lines 263-289: unpack the subject, make its sourcedata folder, write the
\* fine-calibration and the cross-talk file.
PsBegin ==
    /\ pc = "ps_begin"
    /\ \E files \in FileLists : meg_raw_files' = files
    /\ fs' = [rawdata |-> fs.rawdata \cup {Out(sub, "calibration"), Out(sub, "crosstalk")},
              sourcedata |-> fs.sourcedata \cup {Out(sub, "dir")}]
    /\ Goto("ps_emptyroom")
    /\ UNCHANGED <<inputs, fi, raw_er, process_emptyroom, last_fix, last_write,
                   filev, calls>>

er_id(files) == {i \in DOMAIN files : files[i].run = "emptyroom"}

\* The first entry popped, whichever was found: list.pop(0).
PopFirst(s, i) == Tail(s)

\* list.pop(i)
Pop(s, i) == [k \in 1..(Len(s) - 1) |-> IF k < i THEN s[k] ELSE s[k + 1]]

\* Lines 291-304: find the empty-room file and take it off the list.
PsEmptyroom ==
    /\ pc = "ps_emptyroom"
    /\ LET ids == er_id(meg_raw_files)
       IN  IF ids = {}
           THEN /\ process_emptyroom' = FALSE
                /\ raw_er' = NoFile
                /\ fi' = 1
                /\ Goto("ps_file")
                /\ UNCHANGED meg_raw_files
           ELSE IF Cardinality(ids) > 1
           THEN /\ Abort("ValueError", ss, ss, "emptyroom")
                /\ UNCHANGED <<meg_raw_files, fi, raw_er, process_emptyroom>>
           ELSE LET i == CHOOSE i \in ids : TRUE
                IN  /\ meg_raw_files' = Pop(meg_raw_files, i)
                    /\ raw_er' = meg_raw_files[i]
                    /\ IF "line_freq" \in cfg.vars
                       THEN /\ process_emptyroom' = TRUE
                            /\ fi' = 1
                            /\ Goto("ps_file")
                       ELSE /\ Abort("AttributeError", 0, ss, "emptyroom")
                            /\ UNCHANGED <<fi, process_emptyroom>>
    /\ UNCHANGED <<inputs, fs, last_fix, last_write, filev, calls>>

\* Line 341 (and 303): raw.info['line_freq'] = cfg.line_freq
SetLineFreq ==
    IF "line_freq" \in cfg.vars THEN Goto("ps_decode")
    ELSE Abort("AttributeError", 0, ss, "line_freq")

\* The fixer run on every recording with EEG channels, whatever the system.
NeedsFixAnySystem(r) == r.eeg

\* Lines 309-320: the fixer is needed on a system other than Triux when the
\* recording has EEG channels.
NeedsFix(r) == cfg.meg_system # "triux" /\ r.eeg

\* Lines 306-341: the head of the loop over the recordings; read the next
\* one, and on a VectorView recording with EEG channels copy it to the
\* sourcedata folder, run the fixer on the copy and read the copy.
PsRead ==
    /\ pc = "ps_file"
    /\ IF fi > Len(meg_raw_files)
       THEN /\ Goto("ps_mri")
            /\ UNCHANGED <<fs, raw, last_fix>>
       ELSE \E r \in DriverRecordings :
            IF NeedsFix(r)
            THEN /\ fs' = [fs EXCEPT !.sourcedata = @ \cup {Out(sub, "staged")}]
                 /\ last_fix' = [file |-> meg_raw_files[fi].file, path |-> "sourcedata"]
                 /\ \E exit_status \in {0, 1} :
                    IF exit_status # 0
                    THEN /\ Abort("CalledProcessError", 0, ss, "fix_eeg")
                         /\ raw' = r
                    ELSE /\ raw' = [r EXCEPT !.path = "sourcedata"]
                         /\ SetLineFreq
            ELSE /\ raw' = r
                 /\ SetLineFreq
                 /\ UNCHANGED <<fs, last_fix>>
    /\ UNCHANGED <<inputs, meg_raw_files, fi, raw_er, process_emptyroom,
                   last_write, decoded, events, shifts, calls>>

\* Lines 343-349: decode the triggers.  A dictionary that passed the check
\* is sorted in place, so the settings module holds the sorted lists after.
PsDecode ==
    /\ pc = "ps_decode"
    /\ LET r == _get_events_from_sti_channels(raw, cfg.event_channels)
       IN  IF r.status = "raise"
           THEN /\ Abort(r.error, 0, ss, "decode")
                /\ UNCHANGED <<cfg, decoded, events, shifts>>
           ELSE /\ decoded' = r
                /\ events' = r.events
                /\ shifts' = 0
                /\ cfg' = IF r.event_channels.form = "dict"
                          THEN [cfg EXCEPT !.event_channels = r.event_channels]
                          ELSE cfg
                /\ Goto("ps_adjust")
    /\ UNCHANGED <<subject_info, fs, subjv, raw, calls>>

\* The correction run a second time on the array it has already shifted.
PsAdjustTwice ==
    /\ pc = "ps_adjust"
    /\ IF cfg.adjust_event_times
       THEN /\ events' = AdjustEventTimes(AdjustEventTimes(events, cfg, raw.sfreq),
                                          cfg, raw.sfreq)
            /\ shifts' = shifts + 2
       ELSE UNCHANGED <<events, shifts>>
    /\ Goto("ps_write")
    /\ UNCHANGED <<inputs, fs, subjv, raw, decoded, calls>>

\* Lines 351-374: shift the onsets when adjust_event_times is set.
PsAdjust ==
    /\ pc = "ps_adjust"
    /\ IF cfg.adjust_event_times
       THEN /\ events' = AdjustEventTimes(events, cfg, raw.sfreq)
            /\ shifts' = shifts + 1
       ELSE UNCHANGED <<events, shifts>>
    /\ Goto("ps_write")
    /\ UNCHANGED <<inputs, fs, subjv, raw, decoded, calls>>

\* Lines 380-388: the arguments of write_raw_bids.
WriteArgs ==
    [file |-> meg_raw_files[fi].file,
     events |-> events,
     empty_room |-> IF process_emptyroom THEN raw_er ELSE NoFile,
     path |-> raw.path]

NoWrite == [file |-> 0, events |-> <<>>, empty_room |-> NoFile, path |-> "", marked |-> FALSE]

\* Lines 376-395: write the recording with its events and the empty-room
\* file, and mark the subject's bad channels, if any, in what was written.
PsWrite ==
    /\ pc = "ps_write"
    /\ \E meg_bad_channels \in BOOLEAN :
        last_write' = [marked |-> meg_bad_channels] @@ WriteArgs
    /\ fs' = [fs EXCEPT !.rawdata = @ \cup {Out(sub, "recording")}]
    /\ fi' = fi + 1
    /\ Goto("ps_file")
    /\ UNCHANGED <<inputs, meg_raw_files, raw_er, process_emptyroom, last_fix,
                   filev, calls>>

NoFix == [file |-> 0, path |-> ""]

\* process_subject returns: its local variables are gone.
ReturnToLoop ==
    /\ pc' = "loop"
    /\ ss' = ss + 1
    /\ error' = error
    /\ meg_raw_files' = <<>>
    /\ fi' = 0
    /\ raw_er' = NoFile
    /\ process_emptyroom' = FALSE
    /\ last_fix' = NoFix
    /\ last_write' = NoWrite
    /\ raw' = NoRaw
    /\ decoded' = NoDecode
    /\ events' = <<>>
    /\ shifts' = 0

\* Lines 398-426: convert the structural image when a dicom folder is given,
\* and return to the loop over the subjects.
PsMri ==
    /\ pc = "ps_mri"
    /\ IF subject_info[ss].mri_dcm_dir = None
       THEN /\ ReturnToLoop
            /\ UNCHANGED fs
       ELSE \E exit_status \in {0, 1} :
            IF exit_status # 0
            THEN /\ Abort("CalledProcessError", 0, ss, "dcm2niix")
                 /\ UNCHANGED <<fs, subjv, filev>>
            ELSE /\ fs' = [rawdata |-> fs.rawdata \cup {Out(sub, "anat")},
                           sourcedata |-> fs.sourcedata \cup {Out(sub, "nifti")}]
                 /\ ReturnToLoop
    /\ UNCHANGED <<inputs, calls>>

\* ------------------------------------------------------- the specifications
Idle ==
    /\ error = NoError
    /\ ss = 0
    /\ meg_raw_files = <<>>
    /\ fi = 0
    /\ raw_er = NoFile
    /\ process_emptyroom = FALSE
    /\ raw = NoRaw
    /\ decoded = NoDecode
    /\ events = <<>>
    /\ shifts = 0
    /\ calls = <<>>
    /\ last_fix = NoFix
    /\ last_write = NoWrite

\* A run of the script over a drawn settings module, subject dictionary and
\* output folders.
Init ==
    /\ cfg \in DriverConfigs
    /\ subject_info \in SubjectDicts
    /\ fs \in {[rawdata |-> {}, sourcedata |-> {}], [rawdata |-> {Old}, sourcedata |-> {Old}]}
    /\ pc = "check_config"
    /\ Idle

Next ==
    \/ CheckConfig
    \/ Purge
    \/ CheckSubjectInfo
    \/ SubjectLoop
    \/ PsBegin
    \/ PsEmptyroom
    \/ PsRead
    \/ PsDecode
    \/ PsAdjust
    \/ PsWrite
    \/ PsMri

Spec == Init /\ [][Next]_vars

\* The decoder alone: one recording is decoded under one configuration.
\* The recordings hold any set of the channels with one pulse on STI001, or
\* all the channels (or STI101 alone) with, on every bit-line, no pulse or
\* one pulse that starts at any sample and ends before the last one.  A
\* dictionary holds at most MaxListLen + 1 names.
ChUniverse == BitLines \cup {STI101}

DistinctSeqs(S, n) ==
    {q \in SeqsUpTo(S, n) : \A i, j \in DOMAIN q : i # j => q[i] # q[j]}

Configs ==
    {ListCfg(c) : c \in DistinctSeqs(ChUniverse, MaxListLen)}
    \cup {d \in {DictCfg(a, b) : a, b \in DistinctSeqs(ChUniverse, MaxListLen)} :
                Len(d.stim) + Len(d.resp) <= MaxListLen + 1}
    \cup {[form |-> "other"]}

Signals ==
    {[t \in 1..NumSamples |-> {b \in BitLines : start[b] # 0 /\ start[b] <= t /\ t < NumSamples}] :
        start \in [BitLines -> 0..(NumSamples - 1)]}

DecodeRecordings ==
    {MakeRaw(chs, PulseHigh, 1000, FALSE) : chs \in SUBSET ChUniverse}
    \cup {MakeRaw(chs, h, 1000, FALSE) : chs \in {ChUniverse, {STI101}}, h \in Signals}

\* A trigger channel of the recording that is neither a bit-line
\* STI001..STI016 nor STI101, configured alone or as the response channel.
STI201 == <<2, 0, 1>>

OtherChannelConfigs == {ListCfg(<<STI201>>), DictCfg(<<Fmt03(1)>>, <<STI201>>)}

OtherChannelRecordings == {MakeRaw(ChUniverse \cup {STI201}, PulseHigh, 1000, FALSE)}

OneSubject == <<[bids_id |-> BidsId(1), mri_dcm_dir |-> None]>>

\* process_subject at a recording of its only subject's only file.
AtFile ==
    /\ subject_info = OneSubject
    /\ fs = [rawdata |-> {Out(BidsId(1), "calibration"), Out(BidsId(1), "crosstalk")},
             sourcedata |-> {Out(BidsId(1), "dir")}]
    /\ error = NoError
    /\ ss = 1
    /\ meg_raw_files = <<[run |-> "01", file |-> 1]>>
    /\ fi = 1
    /\ raw_er = NoFile
    /\ process_emptyroom = FALSE
    /\ shifts = 0
    /\ calls = <<1>>
    /\ last_fix = NoFix
    /\ last_write = NoWrite

InitDecode ==
    /\ cfg \in {[BaseCfg EXCEPT !.event_channels = c] : c \in Configs \cup OtherChannelConfigs}
    /\ raw \in DecodeRecordings \cup OtherChannelRecordings
    /\ pc = "ps_decode"
    /\ decoded = NoDecode
    /\ events = <<>>
    /\ AtFile

NextDecode == PsDecode

SpecDecode == InitDecode /\ [][NextDecode]_vars

\* The corrector alone: an EventArray as the decoder returns it (ascending
\* by sample) is corrected and handed to the write step.  The two code sets
\* are disjoint, as the settings module derives them from distinct names.
SFreqs == {600, 1000}

LatencyPairs == {<<audio_latency_ms, visual_latency_ms>>, <<visual_latency_ms, audio_latency_ms>>}

EventRows == {<<o, 0, c>> : o \in 0..MaxOnset, c \in 1..MaxCode}

IsAscending(ev) == \A i, j \in DOMAIN ev : i < j => ev[i][1] <= ev[j][1]

EventArrays == {ev \in {<<>>} \cup SeqsUpTo(EventRows, MaxEvents) : IsAscending(ev)}

CodeSetPairs ==
    {<<a, v>> \in (SUBSET (1..MaxCode)) \X (SUBSET (1..MaxCode)) : a \cap v = {}}

InitCorrect ==
    /\ \E adj \in BOOLEAN, sets \in CodeSetPairs, lat \in LatencyPairs :
        cfg = [BaseCfg EXCEPT !.adjust_event_times = adj,
                              !.auditory_event_values = sets[1],
                              !.visual_event_values = sets[2],
                              !.audio_latency_ms = lat[1],
                              !.visual_latency_ms = lat[2]]
    /\ \E f \in SFreqs : raw = MakeRaw({STI101}, <<>>, f, FALSE)
    /\ \E ev \in EventArrays :
        /\ events = ev
        /\ decoded = [checked |-> ListCfg(<<STI101>>)] @@
                     Decoded(ListCfg(<<STI101>>), <<>>, <<>>, <<>>, ev)
    /\ pc = "ps_adjust"
    /\ AtFile

NextCorrect ==
    \/ PsAdjust
    \/ PsWrite

SpecCorrect == InitCorrect /\ [][NextCorrect]_vars
\* The decoder on synthetic recordings: a train of pulses, each encoding one
\* of the codes 1, 2, 4, 8, 3, 5, 12 by simultaneous high samples on the
\* corresponding lines among STI001..STI004, each longer than the minimum
\* duration, each after at least one low sample, the last followed by one.
RoundTripCodes == {1, 2, 4, 8, 3, 5, 12}

RoundTripChannels == <<Fmt03(1), Fmt03(2), Fmt03(3), Fmt03(4)>>

LinesOf(code) ==
    {RoundTripChannels[i] : i \in {k \in DOMAIN RoundTripChannels : (code \div 2 ^ (k - 1)) % 2 = 1}}

Pulses(sfreq) ==
    [code : RoundTripCodes, gap : 1..MaxGap,
     len : (MinSamples(sfreq) + 1)..(MinSamples(sfreq) + 2)]

Low(n) == [t \in 1..n |-> {}]

RECURSIVE TrainHigh(_)
TrainHigh(train) ==
    IF train = <<>> THEN Low(1)
    ELSE Low(Head(train).gap)
         \o [t \in 1..Head(train).len |-> LinesOf(Head(train).code)]
         \o TrainHigh(Tail(train))

RoundTripRecordings(f) ==
    {MakeRaw(Range(RoundTripChannels) \cup {STI101}, TrainHigh(train), f, FALSE) :
        train \in SeqsUpTo(Pulses(f), MaxPulses)}

InitRoundTrip ==
    /\ cfg = [BaseCfg EXCEPT !.event_channels = ListCfg(RoundTripChannels)]
    /\ \E f \in SFreqs : raw \in RoundTripRecordings(f)
    /\ pc = "ps_decode"
    /\ decoded = NoDecode
    /\ events = <<>>
    /\ AtFile

NextRoundTrip == PsDecode

SpecRoundTrip == InitRoundTrip /\ [][NextRoundTrip]_vars

\* ================================================================ the claims
\* ---------------------------------------------------------------- driver (Spec)
Outputs(i) == {o \in fs.rawdata : o.sub = subject_info[i].bids_id}

\* C1: when a subject's meg_raw_files holds more than one 'emptyroom' entry,
\* the driver raises a fatal error that names the subject, and nothing
\* (calibration, cross-talk, recording, structural image) has been written
\* for that subject when the error is raised.
C1_MultipleEmptyroomNoOutput ==
    (Cardinality(er_id(meg_raw_files)) > 1 /\ pc # "ps_emptyroom")
        => /\ pc = "aborted"
           /\ error.type = "ValueError"
           /\ error.names = ss
           /\ Outputs(ss) = {}

NullIds == {i \in DOMAIN subject_info : subject_info[i].bids_id = None}

\* The run ended on a failure that has nothing to do with a null identifier.
EndedByOtherFailure ==
    /\ pc = "aborted"
    /\ ~(error.stage = "check_subject_info" /\ error.names \in NullIds)

\* C6: in a run over a dictionary where some subject has a null bids
\* identifier, process_subject is never called for that subject and is
\* called for every other subject.
C6_NullIdSkippedOthersProcessed ==
    (NullIds # {} /\ pc \in {"done", "aborted"} /\ ~EndedByOtherFailure)
        => Range(calls) = DOMAIN subject_info \ NullIds

\* C7 as stated: a failure raised while processing subject N does not stop
\* the loop: when the run is over, process_subject has been called for
\* subject N+1.
C7_LoopGoesOnAfterFailure ==
    (/\ pc \in {"done", "aborted"}
     /\ error.during # 0
     /\ error.during < Len(subject_info)
     /\ subject_info[error.during + 1].bids_id # None)
        => (error.during + 1) \in Range(calls)

\* C7 as amended: a failure raised while processing subject N ends the
\* remaining steps of subject N and the whole run: process_subject is not
\* called for any later subject.
C7_FailureEndsRun ==
    error.during # 0
        => /\ pc = "aborted"
           /\ \A j \in DOMAIN subject_info : j > error.during => j \notin Range(calls)

\* Subject 1 failed inside process_subject while subject 2, with a bids
\* identifier, was still to come.
C7_Witness ==
    /\ pc = "aborted"
    /\ error.during = 1
    /\ Len(subject_info) >= 2
    /\ subject_info[2].bids_id # None
    /\ calls = <<1>>

\* The top-level settings fields the specification lists as required.
SpecRequiredFields == required_vars \cup {"line_freq"}

\* C9: if a required top-level settings field (in particular the power-line
\* frequency) is missing, the validator raises and the run aborts before
\* the conversion of any subject starts; no missing field is first
\* detected inside process_subject.
C9_MissingFieldCaughtByValidator ==
    ~(SpecRequiredFields \subseteq cfg.vars)
        => /\ calls = <<>>
           /\ error.type # "AttributeError"

\* --------------------------------------------------------- decoder (SpecDecode)
\* The number in a channel name: 'STI007' is 7.
NameIndex(ch) == 100 * ch[1] + 10 * ch[2] + ch[3]

\* The lists whose rows _sti_to_decimal weighted in the last decode.
StimList ==
    IF decoded.event_channels.form = "dict" THEN decoded.event_channels.stim
    ELSE decoded.event_channels.chs

HasStimData == decoded.status = "return" /\ decoded.stim_data # <<>>

\* C2 as stated: the Nth name of the sorted list has bit-weight 2^(N-1): a
\* high sample on that channel is replaced by 2^(N-1).
C2_WeightBySortPosition ==
    HasStimData =>
        \A N \in DOMAIN StimList : \A t \in DOMAIN raw.high :
            StimList[N] \in raw.high[t] => decoded.stim_data[N][t] = 2 ^ (N - 1)

RECURSIVE SumOfNameWeights(_)
SumOfNameWeights(S) ==
    IF S = {} THEN 0
    ELSE LET c == CHOOSE c \in S : TRUE
         IN  2 ^ (NameIndex(c) - 1) + SumOfNameWeights(S \ {c})

\* C2 as amended: the channel named STI<k> has bit-weight 2^(k-1), whatever
\* its place in the sorted list: a high sample on it is replaced by 2^(k-1),
\* a low sample by 0, and the combined value is the sum of the weights of
\* the listed channels that are high.
C2_WeightByName ==
    HasStimData =>
        \A t \in DOMAIN raw.high :
            /\ \A N \in DOMAIN StimList :
                decoded.stim_data[N][t] =
                    IF StimList[N] \in raw.high[t]
                    THEN 2 ^ (NameIndex(StimList[N]) - 1) ELSE 0
            /\ decoded.sti101_new[t] = SumOfNameWeights(Range(StimList) \cap raw.high[t])

\* A list that does not start at STI001 was decoded, and its first channel
\* was high at some sample.
C2_Witness ==
    /\ pc = "ps_adjust"
    /\ HasStimData
    /\ decoded.event_channels.form = "list"
    /\ NameIndex(StimList[1]) > 1
    /\ \E t \in DOMAIN raw.high : StimList[1] \in raw.high[t]

\* C4: a stimulus/response mapping with a channel name in both lists is
\* rejected with a fatal error before any decoding, whatever channels the
\* recording holds.
C4_OverlapRejected ==
    (/\ cfg.event_channels.form = "dict"
     /\ Range(cfg.event_channels.stim) \cap Range(cfg.event_channels.resp) # {}
     /\ pc # "ps_decode")
        => /\ pc = "aborted"
           /\ error.type = "AssertionError"
           /\ decoded = NoDecode

ConfiguredChannels ==
    IF cfg.event_channels.form = "dict"
    THEN Range(cfg.event_channels.stim) \cup Range(cfg.event_channels.resp)
    ELSE IF cfg.event_channels.form = "list" THEN Range(cfg.event_channels.chs)
    ELSE {}

\* C5: when a configured channel is absent from the recording, the resolver
\* returns exactly ['STI101'] if the recording holds STI101 and fails with
\* an error if not; it never returns the configured channels.
C5_FallbackToSTI101 ==
    (pc # "ps_decode" /\ ~(ConfiguredChannels \subseteq raw.ch_names))
        => IF STI101 \in raw.ch_names
           THEN /\ pc = "ps_adjust"
                /\ decoded.status = "return"
                /\ decoded.checked = ListCfg(<<STI101>>)
                /\ decoded.checked # cfg.event_channels
           ELSE /\ pc = "aborted"
                /\ error.type = "AssertionError"
                /\ decoded = NoDecode

\* A mapping whose stimulus channels are all in the recording and one of
\* whose response channels is not fell back to STI101.
C5_Witness ==
    /\ pc = "ps_adjust"
    /\ cfg.event_channels.form = "dict"
    /\ Range(cfg.event_channels.stim) \subseteq raw.ch_names
    /\ ~(Range(cfg.event_channels.resp) \subseteq raw.ch_names)
    /\ decoded.checked = ListCfg(<<STI101>>)

\* The orders a list can be written in.
Orders(q) == {[i \in DOMAIN q |-> q[f[i]]] : f \in Permutations(DOMAIN q)}

Reordered(c) ==
    IF c.form = "dict"
    THEN {DictCfg(a, b) : a \in Orders(c.stim), b \in Orders(c.resp)}
    ELSE IF c.form = "list" THEN {ListCfg(a) : a \in Orders(c.chs)}
    ELSE {}

\* C10: the decoder gives the same events (codes and onsets, row by row)
\* for every order the configured list, or the 'stim' and the 'resp' list,
\* is written in; and when it fails, it fails for every order.
C10_OrderInvariant ==
    pc # "ps_decode" =>
        \A c \in Reordered(cfg.event_channels) :
            LET r == _get_events_from_sti_channels(raw, c)
            IN  IF pc = "aborted"
                THEN r.status = "raise" /\ r.error = error.type
                ELSE r.status = "return" /\ r.events = events

\* A mapping with two response channels was decoded, and two of its events
\* have the same onset.
C10_Witness ==
    /\ pc = "ps_adjust"
    /\ cfg.event_channels.form = "dict"
    /\ decoded.checked = cfg.event_channels
    /\ Len(cfg.event_channels.resp) >= 2
    /\ \E i, j \in DOMAIN events : i < j /\ events[i][1] = events[j][1]

\* ------------------------------------------------------ corrector (SpecCorrect)
\* round(latency_sec * sfreq): the nearest integer.
RoundedSamples(latency_ms, sfreq) == (latency_ms * sfreq + 500) \div 1000

\* C3: with adjust_event_times set, every event with an auditory code has
\* its onset increased by round(audio_latency_sec * sfreq), every event with
\* a visual code by round(visual_latency_sec * sfreq), also when the product
\* is not an integer.
C3_ShiftIsRounded ==
    (pc = "ps_write" /\ cfg.adjust_event_times)
        => \A i \in DOMAIN events :
            events[i][1] = decoded.events[i][1]
                + (IF events[i][3] \in cfg.auditory_event_values
                   THEN RoundedSamples(cfg.audio_latency_ms, raw.sfreq) ELSE 0)
                + (IF events[i][3] \in cfg.visual_event_values
                   THEN RoundedSamples(cfg.visual_latency_ms, raw.sfreq) ELSE 0)

\* C8: every EventArray handed to write_raw_bids is ascending by sample
\* index, with adjust_event_times unset and after the corrector's shifts.
C8_WrittenEventsAscending ==
    pc = "ps_write" => IsAscending(WriteArgs.events)

\* ------------------------------------------------- round trip (SpecRoundTrip)
\* The samples (one-based) at which a pulse starts: a high sample after a
\* low one.
PulseStarts ==
    {t \in DOMAIN raw.high : raw.high[t] # {} /\ (t = 1 \/ raw.high[t - 1] = {})}

\* The k-th pulse start.
NthStart(k) ==
    CHOOSE t \in PulseStarts : Cardinality({u \in PulseStarts : u < t}) = k - 1

\* C11: pulses longer than the minimum duration on STI001..STI004 that
\* encode 1, 2, 4, 8 singly and 3, 5, 12 in combination decode to exactly
\* one event per pulse, with exactly the encoded code and an onset within
\* one sample of the pulse start.
C11_RoundTrip ==
    pc # "ps_decode" =>
        /\ pc = "ps_adjust"
        /\ Len(events) = Cardinality(PulseStarts)
        /\ \A k \in DOMAIN events :
            LET t == NthStart(k)
                onset == events[k][1] - raw.first_samp
            IN  /\ events[k][3] = SumOfNameWeights(raw.high[t])
                /\ events[k][3] \in RoundTripCodes
                /\ onset - (t - 1) \in {-1, 0, 1}

\* Two pulses were decoded, the first of a combined code, the second of a
\* single one.
C11_Witness ==
    /\ pc = "ps_adjust"
    /\ Len(events) = 2
    /\ events[1][3] \in {3, 5, 12}
    /\ events[2][3] \in {1, 2, 4, 8}
    /\ Cardinality(PulseStarts) = 2

\* ------------------------------------------------------------ driver (Spec)
\* The decoded events with each latency added once to the onsets of the
\* events of its code set.
ShiftedOnce ==
    [i \in DOMAIN decoded.events |->
        <<decoded.events[i][1]
            + (IF decoded.events[i][3] \in cfg.auditory_event_values
               THEN LatencySamples(cfg.audio_latency_ms, raw.sfreq) ELSE 0)
            + (IF decoded.events[i][3] \in cfg.visual_event_values
               THEN LatencySamples(cfg.visual_latency_ms, raw.sfreq) ELSE 0),
          decoded.events[i][2], decoded.events[i][3]>>]

\* C12: for every recording the driver processes, the correction is applied
\* to its EventArray exactly once between decoding and the write when
\* adjust_event_times is set and never when it is not: the array written is
\* the decoded one with each latency added once, or the decoded one itself.
C12_CorrectedAtMostOnce ==
    /\ pc = "ps_write" =>
        /\ shifts = IF cfg.adjust_event_times THEN 1 ELSE 0
        /\ WriteArgs.events = IF cfg.adjust_event_times THEN ShiftedOnce
                              ELSE decoded.events
    /\ (pc = "ps_file" /\ last_write # NoWrite) =>
        /\ shifts <= 1
        /\ last_write.events = IF cfg.adjust_event_times THEN ShiftedOnce
                               ELSE decoded.events

\* The second recording of a subject is about to be written with its one
\* auditory event shifted once.
C12_Witness ==
    /\ pc = "ps_write"
    /\ cfg.adjust_event_times
    /\ fi = 2
    /\ decoded.events # <<>>
    /\ events # decoded.events
    /\ shifts = 1

\* ------------------------------------------------------ corrector (SpecCorrect)
InCodeSets(code) == code \in cfg.auditory_event_values \cup cfg.visual_event_values

\* C13: the corrector changes only onsets of events whose code is in the
\* auditory or the visual set: an event with a code in neither keeps its
\* onset, and the previous-value and code columns, the number of events
\* and their row positions are unchanged.
C13_CorrectorFrame ==
    pc = "ps_write" =>
        /\ Len(events) = Len(decoded.events)
        /\ \A i \in DOMAIN events :
            /\ events[i][2] = decoded.events[i][2]
            /\ events[i][3] = decoded.events[i][3]
            /\ ~InCodeSets(decoded.events[i][3]) => events[i][1] = decoded.events[i][1]

\* The corrector moved an event of one of the code sets and left, in the
\* same array, an event of neither set where it was.
C13_Witness ==
    /\ pc = "ps_write"
    /\ cfg.adjust_event_times
    /\ shifts = 1
    /\ \E i, j \in DOMAIN events :
        /\ InCodeSets(events[i][3])
        /\ events[i][1] # decoded.events[i][1]
        /\ ~InCodeSets(events[j][3])
        /\ events[j][1] = decoded.events[j][1]

\* ------------------------------------------------------------ driver (Spec)
InFileLoop == pc \in {"ps_file", "ps_decode", "ps_adjust", "ps_write", "ps_mri"}

HeldOut == IF raw_er = NoFile THEN {} ELSE {raw_er.file}

\* C14: past the empty-room lookup, no 'emptyroom' entry is left in the
\* list of recordings; the list and the held-out entry are together the
\* listed files, the list in the listed order; a baseline is held exactly
\* when an entry was found; every recording of the list is written in turn
\* with the held-out entry as its baseline, or with none when none was found.
C14_EmptyroomHeldOut ==
    InFileLoop =>
        /\ er_id(meg_raw_files) = {}
        /\ process_emptyroom = (raw_er # NoFile)
        /\ raw_er # NoFile => raw_er.run = "emptyroom"
        /\ {meg_raw_files[i].file : i \in DOMAIN meg_raw_files} \cup HeldOut
                = 1..(Len(meg_raw_files) + Cardinality(HeldOut))
        /\ \A i, j \in DOMAIN meg_raw_files :
                i < j => meg_raw_files[i].file < meg_raw_files[j].file
        /\ pc = "ps_write" =>
                /\ WriteArgs.file = meg_raw_files[fi].file
                /\ WriteArgs.empty_room = raw_er
        /\ (pc = "ps_file" /\ fi > 1) =>
                /\ last_write.file = meg_raw_files[fi - 1].file
                /\ last_write.empty_room = raw_er
        /\ pc = "ps_mri" => fi = Len(meg_raw_files) + 1

\* The empty-room file was listed first; the recording listed second is
\* about to be written with it as the baseline.
C14_Witness ==
    /\ pc = "ps_write"
    /\ raw_er = [run |-> "emptyroom", file |-> 1]
    /\ meg_raw_files = <<[run |-> "01", file |-> 2]>>
    /\ WriteArgs.empty_room = raw_er
    /\ WriteArgs.file = 2

AtRecording == pc \in {"ps_decode", "ps_adjust", "ps_write"}

\* C15: the fixer is never run when meg_system is 'triux'; when it is
\* 'vectorview' the fixer is run for a recording exactly when the recording
\* has EEG channels, on the staged copy in the subject's sourcedata folder
\* and never on the file in the raw-data folder, and the recording decoded
\* and written is then the one read again from the staged copy.
C15_FixerGate ==
    /\ cfg.meg_system = "triux" => last_fix = NoFix
    /\ last_fix # NoFix =>
        /\ last_fix.path = "sourcedata"
        /\ Out(sub, "staged") \in fs.sourcedata
    /\ AtRecording =>
        IF cfg.meg_system = "vectorview" /\ raw.eeg
        THEN /\ last_fix.file = meg_raw_files[fi].file
             /\ raw.path = "sourcedata"
        ELSE /\ last_fix.file # meg_raw_files[fi].file
             /\ raw.path = "meg_raw_dir"
    /\ pc = "ps_write" => WriteArgs.path = raw.path

\* On a VectorView system the second recording of a subject, which has EEG
\* channels, is about to be written from its staged copy; the first, which
\* has none, was written from the raw-data folder.
C15_Witness ==
    /\ pc = "ps_write"
    /\ cfg.meg_system = "vectorview"
    /\ raw.eeg
    /\ fi = 2
    /\ last_write.path = "meg_raw_dir"
    /\ last_fix = [file |-> meg_raw_files[fi].file, path |-> "sourcedata"]
    /\ WriteArgs.path = "sourcedata"

\* C16: when the run aborts during validation the folders that were there
\* before the run are untouched: the output folders change only after
\* _check_config and _check_subject_info have both passed.
C16_PurgeAfterValidation ==
    [][fs' # fs => pc \notin {"check_config", "purge", "check_subject_info"}]_vars

\* --------------------------------------------------------- decoder (SpecDecode)
\* _check_event_channels returns the configuration as it is.
AcceptedUnchanged ==
    LET chk == _check_event_channels(cfg.event_channels, raw)
    IN  chk.status = "return" /\ chk.value = cfg.event_channels

\* C17: a configuration that _check_event_channels accepts and returns
\* unchanged is decoded without an error.
C17_AcceptedDecodes ==
    (pc # "ps_decode" /\ AcceptedUnchanged)
        => /\ pc = "ps_adjust"
           /\ error = NoError
           /\ decoded.status = "return"

====
